---- MODULE Spec2Model ----
(***************************************************************************)
(* The build run of gridsome/lib/build.js as a state machine.              *)
(*                                                                         *)
(* One action per continuation of the async functions of the file: the     *)
(* code between two awaits runs without interruption, so an action is the  *)
(* settling of one awaited operation together with everything the code     *)
(* does up to the next await.  Worker calls, filesystem calls, hooks, the  *)
(* compiler and the query engine are external: each of them resolves or    *)
(* rejects nondeterministically.                                           *)
(***************************************************************************)
EXTENDS Integers, Sequences, FiniteSets, TLC

\* ------------------------------------------------------------------ bounds
MaxRenderChunks == 2   \* render queues of up to this many chunks
MaxFiles == 2          \* files.queue of up to this many entries
MaxImageChunks == 3    \* image queues of up to this many full chunks
MaxName == 3           \* file names 1..MaxName may pre-exist / be produced
MaxCpus == 2           \* sysinfo.cpus.logical ranges over 1..MaxCpus

MaxProgressChunks == 200  \* image chunks of the long run of SpecProgress

\* ------------------------------------------------------- program constants
RenderChunkSize == 350
ImageChunkSize == 25

\* ---------------------------------------------------------------- helpers
Min(a, b) == IF a < b THEN a ELSE b

Range(s) == {s[i] : i \in 1..Len(s)}

\* The elements of a set of integers in ascending order (the order in
\* which a directory listing enumerates its names).
RECURSIVE SortedSeq(_)
SortedSeq(S) ==
  IF S = {} THEN <<>>
  ELSE LET m == CHOOSE x \in S : \A y \in S : x <= y
       IN <<m>> \o SortedSeq(S \ {m})

\* lodash chunk(array, size): contiguous slices of `size` elements, the
\* last one holding the remainder; [] for an empty array.
chunk(array, size) ==
  IF Len(array) = 0 \/ size < 1 THEN <<>>
  ELSE [k \in 1..((Len(array) + size - 1) \div size) |->
          SubSeq(array, (k - 1) * size + 1, Min(k * size, Len(array)))]

\* path.basename(p): a path is <<directory, name>>, its base name the name.
basename(p) == p[2]

\* path.join(dir, filename)
join(dir, filename) == <<dir, filename>>

\* ------------------------------------------------------------------ inputs
ImagesDirId == 0

\* Steps of the run, in the order of the source text.
Steps == << "beforeBuild", "emptyDir", "runWebpack", "executeQueries",
            "renderHTML", "processFiles", "processImages", "copyStatic",
            "afterBuild", "removeManifests" >>

Hashes == {"h1", "h2"}

RenderLens ==
  {0} \cup {RenderChunkSize * (c - 1) + 1 : c \in 1..MaxRenderChunks}
      \cup {RenderChunkSize * c : c \in 1..(MaxRenderChunks - 1)}

\* An image job: the source image and the file it is written to.  Jobs are
\* written below several directories, which basename() must ignore.
ImageJob(n) == [filePath |-> <<2, 50 + (n % 2)>>, destPath |-> <<n % 2, n>>]

\* Jobs with names (above 100) that never pre-exist in the images directory.
Filler(len) == [j \in 1..len |-> ImageJob(100 + j)]

FillerLens == {ImageChunkSize * c : c \in 0..(MaxImageChunks - 1)}

ImageQueueOf(names, fill) ==
  LET head == SortedSeq(names)
  IN [j \in 1..Len(head) |-> ImageJob(head[j])] \o Filler(fill)

Names == 1..MaxName

VARIABLES
  app,        \* app.config and app.assets: the inputs of the run
  imagesDir,  \* names present in config.imagesDir on disk
  run,        \* the top-level async function (module.exports)
  html,       \* the renderHTML invocation
  files,      \* the processFiles invocation
  img,        \* the processImages invocation
  pmap        \* the pMap call inside processImages

vars == <<app, imagesDir, run, html, files, img, pmap>>


\* ---------------------------------------------------------- initial state
\* The state once createApp has resolved (line 18): nothing started yet.
AppOf(empty, busting, unused, static, rlen, flen, names, fill, cpus) ==
  [ config |-> [ emptyOutputDir |-> empty,
                 cacheBusting |-> busting,
                 images |-> [removeUnused |-> unused] ],
    staticExists |-> static,
    renderQueue |-> [i \in 1..rlen |-> i],
    files |-> [queue |-> [i \in 1..flen |-> i]],
    images |-> [queue |-> ImageQueueOf(names, fill)],
    cpus |-> cpus ]

\* Inputs that exercise the sequence of stages: every flag, render queue
\* and file queue, with one fixed image workload.
PipelineApps ==
  { AppOf(e, b, TRUE, s, rl, fl, {1}, ImageChunkSize, 2) :
      e \in BOOLEAN, b \in BOOLEAN, s \in BOOLEAN,
      rl \in RenderLens, fl \in 0..MaxFiles }

\* Inputs that exercise the reconciliation: every set of produced and of
\* pre-existing names and both flags, with one concurrency limit.
ImageApps ==
  { AppOf(e, FALSE, u, FALSE, 1, 1, ns, fill, 2) :
      e \in BOOLEAN, u \in BOOLEAN, ns \in SUBSET Names,
      fill \in FillerLens }

\* Inputs that exercise the scheduling of the image chunks: every number of
\* chunks under every concurrency limit.
ScheduleApps ==
  { AppOf(e, FALSE, TRUE, FALSE, 1, 1, {1}, fill, k) :
      e \in BOOLEAN, fill \in FillerLens, k \in 1..MaxCpus }

NoError == [op |-> "", i |-> 0]
Error(op, i) == [op |-> op, i |-> i]

\* Nothing of the run has started.
Created ==
  /\ run = [ pc |-> "created", trace |-> <<>>, resolved |-> {},
             result |-> "pending", error |-> NoError,
             hashString |-> "", queriesHash |-> "", statsHash |-> "" ]
  /\ html = [ worker |-> "none", ends |-> 0, chunks |-> <<>>, sent |-> <<>>,
              calls |-> <<>>, hashes |-> <<>>,
              all |-> "idle", state |-> "idle", err |-> NoError ]
  /\ files = [ idx |-> 0, state |-> "idle", err |-> NoError ]
  /\ img = [ worker |-> "none", ends |-> 0, state |-> "idle",
             chunks |-> <<>>, sent |-> <<>>, calls |-> <<>>,
             existingImages |-> <<>>,
             readdirs |-> 0, progress |-> 0, written |-> <<>>,
             extraImages |-> <<>>, removeIdx |-> 0, removed |-> {},
             err |-> NoError ]
  /\ pmap = [ state |-> "idle", isRejected |-> FALSE, resolvingCount |-> 0,
              currentIndex |-> 0, err |-> NoError ]

Init ==
  /\ \/ app \in PipelineApps \cup ScheduleApps /\ imagesDir = Names
     \/ app \in ImageApps /\ imagesDir \in SUBSET Names
  /\ Created

\* ------------------------------------------ what the functions do when called
\* One call of a worker operation: the worker it is made on, the operation
\* and the index of the chunk in its payload.
Call(worker, op, i) == [on |-> worker, op |-> op, chunk |-> i]

\* hashString with the two branches exchanged.
hashString_inverted(stats) ==
  IF app.config.cacheBusting THEN "gridsome" ELSE stats.hash

\* line 28
hashString(stats) ==
  IF app.config.cacheBusting THEN stats.hash ELSE "gridsome"

\* renderHTML_call rendering the chunks one after the other: only the first
\* worker.render is issued before the stage waits.
renderHTML_call_sequential(renderQueue, hash) ==
  LET pages == chunk(renderQueue, RenderChunkSize)
  IN [ worker |-> "created", ends |-> 0,
       chunks |-> pages,
       sent |-> IF Len(pages) = 0 THEN <<>>
                ELSE <<Call("html-writer", "render", 1)>>,
       calls |-> [i \in 1..Len(pages) |-> IF i = 1 THEN "inflight" ELSE "queued"],
       hashes |-> [i \in 1..Len(pages) |-> hash],
       all |-> IF Len(pages) = 0 THEN "resolved" ELSE "pending",
       state |-> "running", err |-> NoError ]

\* lines 72-93: create the worker, cut the queue into chunks and issue
\* worker.render for every chunk; then await Promise.all.
renderHTML_call(renderQueue, hash) ==
  LET pages == chunk(renderQueue, RenderChunkSize)
  IN [ worker |-> "created", ends |-> 0,
       chunks |-> pages,
       sent |-> [i \in 1..Len(pages) |-> Call("html-writer", "render", i)],
       calls |-> [i \in 1..Len(pages) |-> "inflight"],
       hashes |-> [i \in 1..Len(pages) |-> hash],
       all |-> IF Len(pages) = 0 THEN "resolved" ELSE "pending",
       state |-> "running", err |-> NoError ]

\* lines 100-105: start copying the first file, or return at once.
processFiles_call(queue) ==
  [ idx |-> 0,
    state |-> IF Len(queue) = 0 THEN "returned" ELSE "copying",
    err |-> NoError ]

\* concurrency one above the processor count.
concurrency_plusOne == app.cpus + 1

\* line 137: the concurrency limit handed to pMap.
concurrency == app.cpus

\* lines 128-133: pMap invokes the mapper on chunk i, which calls
\* worker.process and awaits it.
mapper_call(st, i) ==
  [st EXCEPT !.calls[i] = "inflight",
             !.sent = Append(@, Call("image-processor", "process", i))]

\* p-map's scheduler step: take the next chunk unless the map has been
\* rejected or the chunks are used up; resolve when none is left running.
pMap_next(st) ==
  IF st.p.isRejected THEN st
  ELSE IF st.p.currentIndex >= Len(st.calls)
       THEN [st EXCEPT !.p.state =
               IF st.p.resolvingCount = 0 /\ @ = "pending" THEN "resolved" ELSE @]
       ELSE mapper_call([st EXCEPT !.p.resolvingCount = @ + 1,
                                   !.p.currentIndex = @ + 1],
                        st.p.currentIndex + 1)

\* p-map's start-up loop: one scheduler step per unit of concurrency,
\* stopping early once the chunks are used up.
RECURSIVE pMap_loop(_, _, _)
pMap_loop(st, i, limit) ==
  IF i >= limit THEN st
  ELSE LET nx == pMap_next(st)
       IN IF st.p.currentIndex >= Len(st.calls) THEN nx
          ELSE pMap_loop(nx, i + 1, limit)

\* pMap(chunks, mapper, {concurrency})
pMap_call(chunks, limit) ==
  pMap_loop([ p |-> [ state |-> "pending", isRejected |-> FALSE,
                      resolvingCount |-> 0, currentIndex |-> 0,
                      err |-> NoError ],
              calls |-> [i \in 1..Len(chunks) |-> "queued"],
              sent |-> <<>> ],
            0, limit)

\* percent with Math.floor in the place of Math.round.
percent_floor(progress, totalJobs) == (progress * 100) \div totalJobs

\* line 135: Math.round(progress * 100 / totalJobs)
percent(progress, totalJobs) == (2 * progress * 100 + totalJobs) \div (2 * totalJobs)

\* lines 123-138: reset the progress, write the 0% line and hand the chunks
\* to pMap.
dispatch(im, existing) ==
  LET st == pMap_call(im.chunks, concurrency)
  IN [ img |-> [im EXCEPT !.state = "mapping", !.existingImages = existing,
                          !.progress = 0, !.written = <<0>>,
                          !.calls = st.calls, !.sent = st.sent],
       pmap |-> st.p ]

\* processImages_call cutting the image queue with the chunk size of the
\* render queue.
processImages_call_wrongSize(images, config) ==
  LET im == [img EXCEPT !.chunks = chunk(images.queue, RenderChunkSize),
                        !.worker = "created"]
  IN IF ~config.emptyOutputDir
     THEN [ img |-> [im EXCEPT !.state = "readdir", !.readdirs = @ + 1],
            pmap |-> pmap ]
     ELSE dispatch(im, <<>>)

\* processImages_call reading the directory whatever emptyOutputDir says.
processImages_call_alwaysRead(images, config) ==
  LET im == [img EXCEPT !.chunks = chunk(images.queue, ImageChunkSize),
                        !.worker = "created"]
  IN [ img |-> [im EXCEPT !.state = "readdir", !.readdirs = @ + 1],
       pmap |-> pmap ]

\* processImages_call with the directory read issued after the chunks have
\* been handed to pMap.
processImages_call_lateRead(images, config) ==
  LET im == [img EXCEPT !.chunks = chunk(images.queue, ImageChunkSize),
                        !.worker = "created"]
      d == dispatch(im, <<>>)
  IN IF ~config.emptyOutputDir
     THEN [ img |-> [d.img EXCEPT !.state = "readdir", !.readdirs = @ + 1],
            pmap |-> d.pmap ]
     ELSE d

\* lines 111-121: cut the queue into chunks, create the worker and read the
\* images directory unless the output directory was emptied.
processImages_call(images, config) ==
  LET im == [img EXCEPT !.chunks = chunk(images.queue, ImageChunkSize),
                        !.worker = "created"]
  IN IF ~config.emptyOutputDir
     THEN [ img |-> [im EXCEPT !.state = "readdir", !.readdirs = @ + 1],
            pmap |-> pmap ]
     ELSE dispatch(im, <<>>)

\* newImages taken from the source path of a job instead of its destPath.
newImages_fromSource(queue) ==
  [j \in 1..Len(queue) |-> basename(queue[j].filePath)]

\* line 150
newImages(queue) == [j \in 1..Len(queue) |-> basename(queue[j].destPath)]

\* extraImages with the negation of the filter dropped.
extraImages_dropNot(existing, new) ==
  SelectSeq(existing, LAMBDA value : value \in Range(new))

\* line 151
extraImages(existing, new) ==
  SelectSeq(existing, LAMBDA value : value \notin Range(new))

\* ------------------------------------------------------ the top-level run
Suspended(step) == run.pc = step /\ run.result = "pending"

\* The run resumes after `from` resolved and awaits `to` next.
Advance(r, from, to) ==
  [r EXCEPT !.pc = to, !.trace = Append(@, to),
            !.resolved = IF from = "" THEN @ ELSE @ \cup {from}]

\* line 21: await app.plugins.run('beforeBuild', ...)
beforeBuild_call ==
  /\ Suspended("created")
  /\ run' = Advance(run, "", "beforeBuild")
  /\ UNCHANGED <<app, imagesDir, html, files, img, pmap>>

\* lines 23-27: beforeBuild resolved; empty the output directory if
\* configured, else go on to the compiler.
beforeBuild_resolved ==
  /\ Suspended("beforeBuild")
  /\ run' = Advance(run, "beforeBuild",
                    IF app.config.emptyOutputDir THEN "emptyDir"
                                                 ELSE "runWebpack")
  /\ UNCHANGED <<app, imagesDir, html, files, img, pmap>>

\* lines 24-27, 58-65: emptyDir resolved; run the compiler.
emptyDir_resolved ==
  /\ Suspended("emptyDir")
  /\ run' = Advance(run, "emptyDir", "runWebpack")
  /\ UNCHANGED <<app, imagesDir, html, files, img, pmap>>

\* runWebpack_resolved with the await of executeQueries (line 33) dropped:
\* renderHTML is called in the same continuation.
runWebpack_resolved_noawait ==
  /\ Suspended("runWebpack")
  /\ \E h \in Hashes :
       /\ run' = [Advance(Advance(run, "runWebpack", "executeQueries"),
                          "", "renderHTML")
                    EXCEPT !.statsHash = h,
                        !.hashString = hashString([hash |-> h]),
                           !.queriesHash = hashString([hash |-> h])]
       /\ html' = renderHTML_call(app.renderQueue, hashString([hash |-> h]))
  /\ UNCHANGED <<app, imagesDir, files, img, pmap>>

\* lines 65-69, 27-33: the compiler resolved with stats; resolve the hash,
\* build the queue and start the queries.
runWebpack_resolved ==
  /\ Suspended("runWebpack")
  /\ \E h \in Hashes :
       run' = [Advance(run, "runWebpack", "executeQueries")
                 EXCEPT !.statsHash = h,
                        !.hashString = hashString([hash |-> h]),
                        !.queriesHash = hashString([hash |-> h])]
  /\ UNCHANGED <<app, imagesDir, html, files, img, pmap>>

\* ------------------------------------------------------------ renderHTML
\* line 34: the queries resolved; call renderHTML.
executeQueries_resolved ==
  /\ Suspended("executeQueries")
  /\ run' = Advance(run, "executeQueries", "renderHTML")
  /\ html' = renderHTML_call(app.renderQueue, run.hashString)
  /\ UNCHANGED <<app, imagesDir, files, img, pmap>>

\* render_resolved under Promise.race instead of Promise.all: the first
\* chunk to resolve resolves the whole.
render_resolved_race(i) ==
  /\ html.calls[i] = "inflight"
  /\ html' = [html EXCEPT
       !.calls[i] = "resolved",
       !.all = IF @ = "pending" THEN "resolved" ELSE @]
  /\ UNCHANGED <<app, imagesDir, run, files, img, pmap>>

\* lines 80-88, 93: worker.render of chunk i resolved; Promise.all resolves
\* once every chunk has.
render_resolved(i) ==
  /\ html.calls[i] = "inflight"
  /\ LET calls == [html.calls EXCEPT ![i] = "resolved"]
     IN html' = [html EXCEPT
          !.calls = calls,
          !.all = IF @ = "pending" /\ \A j \in DOMAIN calls : calls[j] = "resolved"
                  THEN "resolved" ELSE @]
  /\ UNCHANGED <<app, imagesDir, run, files, img, pmap>>

\* render_rejected with renderHTML waiting for every chunk to settle before
\* it throws.
render_rejected_waits(i) ==
  /\ html.calls[i] = "inflight"
  /\ html' = [html EXCEPT
       !.calls[i] = "rejected",
       !.ends = @ + 1,
       !.all = IF @ = "pending" THEN "rejected" ELSE @,
       !.state = IF \A j \in DOMAIN html.calls : j # i => html.calls[j] # "inflight"
                 THEN "thrown" ELSE @,
       !.err = IF html.all = "pending" THEN Error("worker.render", i) ELSE @]
  /\ UNCHANGED <<app, imagesDir, run, files, img, pmap>>

\* lines 89-93: worker.render of chunk i rejected; the catch block ends the
\* worker and rethrows, Promise.all rejects with the first such error and
\* renderHTML, which does not catch it, throws.
render_rejected(i) ==
  /\ html.calls[i] = "inflight"
  /\ html' = [html EXCEPT
       !.calls[i] = "rejected",
       !.ends = @ + 1,
       !.all = IF @ = "pending" THEN "rejected" ELSE @,
       !.state = IF html.all = "pending" THEN "thrown" ELSE @,
       !.err = IF html.all = "pending" THEN Error("worker.render", i) ELSE @]
  /\ UNCHANGED <<app, imagesDir, run, files, img, pmap>>

\* renderHTML_return without the worker.end() of line 95.
renderHTML_return_noEnd ==
  /\ html.state = "running"
  /\ html.all = "resolved"
  /\ html' = [html EXCEPT !.state = "returned"]
  /\ UNCHANGED <<app, imagesDir, run, files, img, pmap>>

\* lines 95-98: Promise.all resolved; end the worker, log, return.
renderHTML_return ==
  /\ html.state = "running"
  /\ html.all = "resolved"
  /\ html' = [html EXCEPT !.ends = @ + 1, !.state = "returned"]
  /\ UNCHANGED <<app, imagesDir, run, files, img, pmap>>

\* ---------------------------------------------------------- processFiles
\* renderHTML_resolved as if renderHTML swallowed the failure of its chunks
\* and returned normally.
renderHTML_resolved_swallow ==
  /\ Suspended("renderHTML")
  /\ html.state \in {"returned", "thrown"}
  /\ run' = Advance(run, "renderHTML", "processFiles")
  /\ files' = processFiles_call(app.files.queue)
  /\ UNCHANGED <<app, imagesDir, html, img, pmap>>

\* line 35: renderHTML returned; call processFiles.
renderHTML_resolved ==
  /\ Suspended("renderHTML")
  /\ html.state = "returned"
  /\ run' = Advance(run, "renderHTML", "processFiles")
  /\ files' = processFiles_call(app.files.queue)
  /\ UNCHANGED <<app, imagesDir, html, img, pmap>>

\* lines 104-108: one fs.copy resolved; copy the next file or return.
copy_resolved ==
  /\ files.state = "copying"
  /\ files' = [files EXCEPT
       !.idx = @ + 1,
       !.state = IF files.idx + 1 = Len(app.files.queue) THEN "returned" ELSE @]
  /\ UNCHANGED <<app, imagesDir, run, html, img, pmap>>

\* line 105: one fs.copy rejected; processFiles throws.
copy_rejected ==
  /\ files.state = "copying"
  /\ files' = [files EXCEPT !.state = "thrown",
                            !.err = Error("fs.copy", files.idx + 1)]
  /\ UNCHANGED <<app, imagesDir, run, html, img, pmap>>


\* --------------------------------------------------------- processImages
\* line 36: processFiles returned; call processImages.
processFiles_resolved ==
  /\ Suspended("processFiles")
  /\ files.state = "returned"
  /\ run' = Advance(run, "processFiles", "processImages")
  /\ LET c == processImages_call(app.images, app.config)
     IN img' = c.img /\ pmap' = c.pmap
  /\ UNCHANGED <<app, imagesDir, html, files>>

\* lines 119-138: fs.readdir resolved with the names in the directory.
readdir_resolved ==
  /\ img.state = "readdir"
  /\ LET c == dispatch(img, SortedSeq(imagesDir))
     IN img' = c.img /\ pmap' = c.pmap
  /\ UNCHANGED <<app, imagesDir, run, html, files>>

\* line 120: fs.readdir rejected; nothing catches it, processImages throws.
readdir_rejected ==
  /\ img.state = "readdir"
  /\ img' = [img EXCEPT !.state = "thrown", !.err = Error("fs.readdir", 0)]
  /\ UNCHANGED <<app, imagesDir, run, html, files, pmap>>

\* process_resolved with the worker ended by the mapper after each chunk.
process_resolved_endInMapper(i) ==
  /\ img.calls[i] = "inflight"
  /\ LET st == pMap_next([ p |-> [pmap EXCEPT !.resolvingCount = @ - 1],
                           calls |-> [img.calls EXCEPT ![i] = "resolved"],
                           sent |-> img.sent ])
     IN /\ img' = [img EXCEPT
               !.calls = st.calls,
               !.sent = st.sent,
               !.ends = @ + 1,
               !.progress = @ + 1,
               !.written = Append(@, percent(img.progress + 1, Len(img.chunks)))]
        /\ pmap' = st.p
  /\ UNCHANGED <<app, imagesDir, run, html, files>>

\* lines 129-136: worker.process of chunk i resolved; the mapper counts it
\* and writes the percentage, then pMap schedules the next chunk.
process_resolved(i) ==
  /\ img.calls[i] = "inflight"
  /\ LET st == pMap_next([ p |-> [pmap EXCEPT !.resolvingCount = @ - 1],
                           calls |-> [img.calls EXCEPT ![i] = "resolved"],
                           sent |-> img.sent ])
     IN /\ img' = [img EXCEPT
               !.calls = st.calls,
               !.sent = st.sent,
               !.progress = @ + 1,
               !.written = Append(@, percent(img.progress + 1, Len(img.chunks)))]
        /\ pmap' = st.p
  /\ UNCHANGED <<app, imagesDir, run, html, files>>

\* process_rejected with the mapper catching the error without rethrowing
\* it: pMap sees the chunk as done and schedules the next one.
process_rejected_swallow(i) ==
  /\ img.calls[i] = "inflight"
  /\ LET st == pMap_next([ p |-> [pmap EXCEPT !.resolvingCount = @ - 1],
                           calls |-> [img.calls EXCEPT ![i] = "rejected"],
                           sent |-> img.sent ])
     IN /\ img' = [img EXCEPT !.calls = st.calls, !.sent = st.sent]
        /\ pmap' = st.p
  /\ UNCHANGED <<app, imagesDir, run, html, files>>

\* process_rejected with the worker ended inside the mapper, the way the
\* render stage does it, in addition to the catch around pMap.
process_rejected_endInMapper(i) ==
  /\ img.calls[i] = "inflight"
  /\ img' = [img EXCEPT !.calls[i] = "rejected", !.ends = @ + 1]
  /\ pmap' = [pmap EXCEPT
       !.isRejected = TRUE,
       !.state = IF @ = "pending" THEN "rejected" ELSE @,
       !.err = IF pmap.state = "pending" THEN Error("worker.process", i) ELSE @]
  /\ UNCHANGED <<app, imagesDir, run, html, files>>

\* line 129: worker.process of chunk i rejected; the mapper throws and pMap
\* rejects with the first such error.
process_rejected(i) ==
  /\ img.calls[i] = "inflight"
  /\ img' = [img EXCEPT !.calls[i] = "rejected"]
  /\ pmap' = [pmap EXCEPT
       !.isRejected = TRUE,
       !.state = IF @ = "pending" THEN "rejected" ELSE @,
       !.err = IF pmap.state = "pending" THEN Error("worker.process", i) ELSE @]
  /\ UNCHANGED <<app, imagesDir, run, html, files>>

\* pMap_rejected without the worker.end() of line 140.
pMap_rejected_noEnd ==
  /\ img.state = "mapping"
  /\ pmap.state = "rejected"
  /\ img' = [img EXCEPT !.state = "thrown", !.err = pmap.err]
  /\ UNCHANGED <<app, imagesDir, run, html, files, pmap>>

\* lines 139-142: pMap rejected; end the worker and rethrow.
pMap_rejected ==
  /\ img.state = "mapping"
  /\ pmap.state = "rejected"
  /\ img' = [img EXCEPT !.ends = @ + 1, !.state = "thrown", !.err = pmap.err]
  /\ UNCHANGED <<app, imagesDir, run, html, files, pmap>>

\* lines 144-155: pMap resolved; end the worker, then start removing the
\* pre-existing images this build did not produce, if configured.
pMap_resolved ==
  /\ img.state = "mapping"
  /\ pmap.state = "resolved"
  /\ LET extra == IF app.config.images.removeUnused /\ Len(img.existingImages) > 0
                  THEN extraImages(img.existingImages, newImages(app.images.queue))
                  ELSE <<>>
     IN img' = [img EXCEPT
          !.ends = @ + 1,
          !.extraImages = extra,
          !.removeIdx = 0,
          !.state = IF Len(extra) > 0 THEN "removing" ELSE "returned"]
  /\ UNCHANGED <<app, imagesDir, run, html, files, pmap>>

\* lines 154-158: one fs.remove resolved; remove the next file or return.
remove_resolved ==
  /\ img.state = "removing"
  /\ LET filename == img.extraImages[img.removeIdx + 1]
     IN /\ imagesDir' = imagesDir \ {filename}
        /\ img' = [img EXCEPT
             !.removeIdx = @ + 1,
             !.removed = @ \cup {join(ImagesDirId, filename)},
             !.state = IF img.removeIdx + 1 = Len(img.extraImages)
                       THEN "returned" ELSE @]
  /\ UNCHANGED <<app, run, html, files, pmap>>

\* line 155: one fs.remove rejected; processImages throws.
remove_rejected ==
  /\ img.state = "removing"
  /\ img' = [img EXCEPT !.state = "thrown",
                        !.err = Error("fs.remove", img.removeIdx + 1)]
  /\ UNCHANGED <<app, imagesDir, run, html, files, pmap>>

\* ------------------------------------------------------- the end of the run
\* lines 39-45: processImages returned; copy the static directory if it
\* exists, else call the afterBuild hook.
processImages_resolved ==
  /\ Suspended("processImages")
  /\ img.state = "returned"
  /\ run' = Advance(run, "processImages",
                    IF app.staticExists THEN "copyStatic" ELSE "afterBuild")
  /\ UNCHANGED <<app, imagesDir, html, files, img, pmap>>

\* line 45: the static copy resolved; call the afterBuild hook.
copyStatic_resolved ==
  /\ Suspended("copyStatic")
  /\ run' = Advance(run, "copyStatic", "afterBuild")
  /\ UNCHANGED <<app, imagesDir, html, files, img, pmap>>

\* line 48: afterBuild resolved; remove the manifests directory.
afterBuild_resolved ==
  /\ Suspended("afterBuild")
  /\ run' = Advance(run, "afterBuild", "removeManifests")
  /\ UNCHANGED <<app, imagesDir, html, files, img, pmap>>

\* lines 50-55: the removal resolved; log and return the app.
removeManifests_resolved ==
  /\ Suspended("removeManifests")
  /\ run' = [run EXCEPT !.pc = "done", !.resolved = @ \cup {"removeManifests"},
                        !.result = "app"]
  /\ UNCHANGED <<app, imagesDir, html, files, img, pmap>>

\* Steps that await one external operation directly.
ExternalSteps == { "beforeBuild", "emptyDir", "runWebpack", "executeQueries",
                   "copyStatic", "afterBuild", "removeManifests" }

\* The error a stage function has thrown, if it has.
Thrown(step) ==
  CASE step = "renderHTML" -> IF html.state = "thrown" THEN {html.err} ELSE {}
    [] step = "processFiles" -> IF files.state = "thrown" THEN {files.err} ELSE {}
    [] step = "processImages" -> IF img.state = "thrown" THEN {img.err} ELSE {}
    [] OTHER -> {}

\* lines 21-48: the operation the run awaits rejected; no try/catch
\* surrounds any await of the run, so the run rejects with that error.
await_rejected ==
  /\ run.result = "pending"
  /\ \E e \in (IF run.pc \in ExternalSteps THEN {Error(run.pc, 0)} ELSE {})
               \cup Thrown(run.pc) :
       run' = [run EXCEPT !.pc = "failed", !.result = "rejected", !.error = e]
  /\ UNCHANGED <<app, imagesDir, html, files, img, pmap>>

Next ==
  \/ beforeBuild_call
  \/ beforeBuild_resolved
  \/ emptyDir_resolved
  \/ runWebpack_resolved
  \/ executeQueries_resolved
  \/ \E i \in DOMAIN html.calls : render_resolved(i)
  \/ \E i \in DOMAIN html.calls : render_rejected(i)
  \/ renderHTML_return
  \/ renderHTML_resolved
  \/ copy_resolved
  \/ copy_rejected
  \/ processFiles_resolved
  \/ readdir_resolved
  \/ readdir_rejected
  \/ \E i \in DOMAIN img.calls : process_resolved(i)
  \/ \E i \in DOMAIN img.calls : process_rejected(i)
  \/ pMap_rejected
  \/ pMap_resolved
  \/ remove_resolved
  \/ remove_rejected
  \/ processImages_resolved
  \/ copyStatic_resolved
  \/ afterBuild_resolved
  \/ removeManifests_resolved
  \/ await_rejected

Spec == Init /\ [][Next]_vars


\* ------------------------------------------- a run with many image chunks
\* One build whose image queue fills MaxProgressChunks chunks, processed one
\* chunk at a time, next to small builds that take every path of the run.
ProgressApps ==
  { AppOf(TRUE, FALSE, FALSE, FALSE, 1, 0, {},
          ImageChunkSize * MaxProgressChunks, 1) }
    \cup { AppOf(e, TRUE, TRUE, TRUE, 1, 1, {1}, ImageChunkSize, 2) :
             e \in BOOLEAN }

InitProgress ==
  /\ app \in ProgressApps
  /\ imagesDir = Names
  /\ Created

SpecProgress == InitProgress /\ [][Next]_vars

\* ================================================================ claims
IsPrefix(s, t) == Len(s) <= Len(t) /\ \A k \in 1..Len(s) : s[k] = t[k]

\* The steps a run with this configuration goes through.
ExpectedSteps ==
  SelectSeq(Steps, LAMBDA s :
    /\ (s = "emptyDir" => app.config.emptyOutputDir)
    /\ (s = "copyStatic" => app.staticExists))

\* Steps that write below the output directory.
OutputSteps == {"runWebpack", "renderHTML", "processFiles", "processImages",
                "copyStatic"}

Started(step) == \E k \in 1..Len(run.trace) : run.trace[k] = step

InFlight(calls) == {i \in DOMAIN calls : calls[i] = "inflight"}
AllResolved(calls) == \A i \in DOMAIN calls : calls[i] = "resolved"

\* C1: the steps of a run start in the fixed order of the source, each one
\* only after the awaited operation of the one before it has settled: every
\* started step but the last has resolved, a resolved stage has returned
\* with none of its calls in flight, the output directory is emptied before
\* any step that writes output starts, and the queries have resolved before
\* any render chunk is dispatched.
StepsInOrder ==
  /\ IsPrefix(run.trace, ExpectedSteps)
  /\ \A k \in 1..(Len(run.trace) - 1) : run.trace[k] \in run.resolved
  /\ "renderHTML" \in run.resolved =>
       html.state = "returned" /\ AllResolved(html.calls)
  /\ "processFiles" \in run.resolved =>
       files.state = "returned" /\ files.idx = Len(app.files.queue)
  /\ "processImages" \in run.resolved =>
       img.state = "returned" /\ AllResolved(img.calls)
  /\ (app.config.emptyOutputDir /\ \E s \in OutputSteps : Started(s)) =>
       "emptyDir" \in run.resolved
  /\ html.worker = "created" => "executeQueries" \in run.resolved

\* A complete run through all ten steps.
StepsInOrderWitness ==
  /\ run.result = "app"
  /\ run.trace = Steps
  /\ Len(html.calls) >= 2
  /\ Len(img.calls) >= 2

\* C2: once an awaited step has rejected the run has rejected with that
\* step's error, the step it was awaiting is the last one ever started, no
\* step is started twice, and the app is returned only when every step of
\* the sequence resolved.
RejectionIsFinal ==
  /\ [](run.result = "rejected" =>
          /\ run.pc = "failed"
          /\ run.error # NoError
          /\ run.trace[Len(run.trace)] \notin run.resolved
          /\ run.error.op = run.trace[Len(run.trace)]
             \/ run.error \in Thrown(run.trace[Len(run.trace)]))
  /\ [](\A j, k \in 1..Len(run.trace) : run.trace[j] = run.trace[k] => j = k)
  /\ [](Thrown(run.pc) # {} => run.result # "app")
  /\ [](run.result = "app" =>
          /\ \A k \in 1..Len(ExpectedSteps) : ExpectedSteps[k] \in run.resolved
          /\ \A s \in {"renderHTML", "processFiles", "processImages"} :
               Thrown(s) = {})
  /\ [][(run.result = "rejected" \/ Thrown(run.pc) # {}) =>
          /\ run'.trace = run.trace
          /\ run'.resolved = run.resolved
          /\ run'.result # "app"]_vars
  /\ [][run.result = "rejected" => run' = run]_vars

\* A run that rejected in its last step, after one with a rejected stage.
RunRejectedWitness ==
  /\ run.result = "rejected"
  /\ run.error = Error("worker.process", 2)
  /\ run.trace[Len(run.trace)] = "processImages"

\* C3 (as claimed): whenever renderHTML or processImages has returned or
\* thrown, worker.end() has been called on the worker it created.
WorkerEndedOnExit ==
  /\ html.state \in {"returned", "thrown"} => html.ends >= 1
  /\ img.state \in {"returned", "thrown"} => img.ends >= 1

\* C4 (as claimed): worker.end() of the render stage is called at most once,
\* and exactly once when renderHTML has returned or thrown.
RenderEndsExactlyOnce ==
  /\ html.ends <= 1
  /\ html.state \in {"returned", "thrown"} => html.ends = 1

\* C5: once the chunks have been handed to pMap, worker.end() of the image
\* stage is called exactly once: not while pMap is pending, once when it has
\* resolved or rejected, and never again, however many chunks reject.
ImageEndsExactlyOnce ==
  /\ img.ends <= 1
  /\ img.state = "mapping" => img.ends = 0
  /\ (pmap.state # "idle" /\ img.state \in {"removing", "returned", "thrown"}) =>
       img.ends = 1

\* Two chunks in flight at once have both rejected.
ImageEndsExactlyOnceWitness ==
  /\ img.state = "thrown"
  /\ Cardinality({i \in DOMAIN img.calls : img.calls[i] = "rejected"}) >= 2
  /\ img.ends = 1


\* The base names this build produces, and the names of the snapshot.
Produced == {basename(app.images.queue[j].destPath) : j \in 1..Len(app.images.queue)}
Existing == Range(img.existingImages)

\* C6: no file is removed, and none is queued for removal, whose base name
\* is the base name of the destPath of a job of the image queue.
NeverRemovesProduced ==
  /\ \A p \in img.removed :
       \A j \in 1..Len(app.images.queue) :
         basename(p) # basename(app.images.queue[j].destPath)
  /\ \A k \in 1..Len(img.extraImages) :
       \A j \in 1..Len(app.images.queue) :
         img.extraImages[k] # basename(app.images.queue[j].destPath)

\* Reconciliation has removed files while a produced name pre-existed.
NeverRemovesProducedWitness ==
  /\ img.state = "returned"
  /\ img.removed # {}
  /\ Existing \cap Produced # {}
  /\ imagesDir \cap Produced # {}

\* C7: when processImages has returned with removeUnused set, the files it
\* removed from the images directory are exactly the snapshot names that no
\* job produces; before that it has removed no other file.
RemovesExactlyUnused ==
  /\ img.removed \subseteq {join(ImagesDirId, f) : f \in Existing \ Produced}
  /\ (img.state = "returned" /\ app.config.images.removeUnused) =>
       /\ img.removed = {join(ImagesDirId, f) : f \in Existing \ Produced}
       /\ imagesDir \cap Existing = Existing \cap Produced

\* The spec's example: three names pre-exist, one of them is produced
\* together with new names, and the two others are removed.
RemovesExactlyUnusedWitness ==
  /\ img.state = "returned"
  /\ Existing = {1, 2, 3}
  /\ Produced \cap Existing = {1}
  /\ Produced \ Existing # {}
  /\ img.removed = {join(ImagesDirId, 2), join(ImagesDirId, 3)}

\* C8: a file is removed, or its removal issued, only when every image chunk
\* resolved, removeUnused is set and emptyOutputDir is not; with
\* emptyOutputDir the images directory is never read.
RemovalOnlyWhenConfigured ==
  /\ (img.state = "removing" \/ img.removed # {} \/ Len(img.extraImages) > 0) =>
       /\ AllResolved(img.calls)
       /\ app.config.images.removeUnused
       /\ ~app.config.emptyOutputDir
  /\ app.config.emptyOutputDir =>
       img.readdirs = 0 /\ img.existingImages = <<>>

\* The stage has returned with emptyOutputDir and removeUnused both set and
\* unused files in the directory, none of which was removed.
RemovalOnlyWhenConfiguredWitness ==
  /\ img.state = "returned"
  /\ app.config.emptyOutputDir
  /\ app.config.images.removeUnused
  /\ imagesDir \ Produced # {}
  /\ img.removed = {}

NoCallStarted == \A i \in DOMAIN img.calls : img.calls[i] = "queued"

\* C9: while the images directory is being read no chunk has been handed to
\* the worker, the snapshot is set only at that point, and files are removed
\* only once every chunk's worker call has resolved.
SnapshotBeforeRemovalAfter ==
  /\ [](img.state = "readdir" => pmap.state = "idle" /\ NoCallStarted)
  /\ []((img.state = "removing" \/ img.removed # {}) =>
          AllResolved(img.calls) /\ pmap.state = "resolved")
  /\ [][img'.existingImages # img.existingImages =>
          img.state = "readdir" /\ NoCallStarted]_vars
  /\ [][imagesDir' # imagesDir =>
          AllResolved(img.calls) /\ InFlight(img'.calls) = {}]_vars

\* Files are being removed after a snapshot and three chunks.
SnapshotBeforeRemovalAfterWitness ==
  /\ img.state = "removing"
  /\ img.removed # {}
  /\ Len(img.calls) = 3
  /\ Len(img.existingImages) = 3

\* C10: the number of chunks whose worker.process call is in flight never
\* exceeds the logical CPU count.
InFlightAtMostCpus == Cardinality(InFlight(img.calls)) <= app.cpus

\* The limit is reached while a chunk is still waiting.
InFlightAtMostCpusWitness ==
  /\ Cardinality(InFlight(img.calls)) = app.cpus
  /\ app.cpus = 2
  /\ Len(img.calls) > app.cpus
  /\ \E i \in DOMAIN img.calls : img.calls[i] = "queued"


\* How often chunk i is the payload of a call of the log.
TimesSent(sent, i) == Cardinality({k \in 1..Len(sent) : sent[k].chunk = i})

NoneRejected(calls) == \A i \in DOMAIN calls : calls[i] # "rejected"

\* C11: no chunk is ever sent to a worker twice, and when renderHTML has
\* returned, or pMap has resolved, every chunk of the stage has been sent
\* exactly once and every worker call has resolved.
EachChunkOnce ==
  /\ \A i \in DOMAIN html.calls : TimesSent(html.sent, i) <= 1
  /\ \A i \in DOMAIN img.calls : TimesSent(img.sent, i) <= 1
  /\ html.state = "returned" =>
       /\ Len(html.sent) = Len(html.chunks)
       /\ \A i \in 1..Len(html.chunks) : TimesSent(html.sent, i) = 1
       /\ AllResolved(html.calls)
  /\ (pmap.state = "resolved" \/ img.state \in {"removing", "returned"}) =>
       /\ Len(img.sent) = Len(img.chunks)
       /\ \A i \in 1..Len(img.chunks) : TimesSent(img.sent, i) = 1
       /\ AllResolved(img.calls)

\* Both stages have returned after several chunks each.
EachChunkOnceWitness ==
  /\ html.state = "returned"
  /\ img.state = "returned"
  /\ Len(html.chunks) >= 2
  /\ Len(img.chunks) >= 2

\* C12: once a chunk's worker.process call has rejected no further chunk is
\* sent to the worker; the first rejection rejects pMap with that chunk's
\* error, which later settlements leave alone, and processImages throws it.
StopsAtFirstRejection ==
  /\ [][~NoneRejected(img.calls) => img'.sent = img.sent]_vars
  /\ [][\A i \in DOMAIN img.calls :
          (NoneRejected(img.calls) /\ img.calls[i] = "inflight"
             /\ img'.calls[i] = "rejected") =>
            /\ pmap'.state = "rejected"
            /\ pmap'.err = Error("worker.process", i)]_vars
  /\ [][pmap.state = "rejected" =>
          pmap'.state = "rejected" /\ pmap'.err = pmap.err]_vars
  /\ []((img.state = "thrown" /\ pmap.state = "rejected") => img.err = pmap.err)
  /\ []((run.result = "rejected" /\ pmap.state = "rejected") => run.error = pmap.err)

\* processImages threw the error of chunk 2, chunk 1 rejected later and
\* chunk 3 was never started.
StopsAtFirstRejectionWitness ==
  /\ img.state = "thrown"
  /\ img.err = Error("worker.process", 2)
  /\ Len(img.calls) = 3
  /\ img.calls[1] = "rejected"
  /\ img.calls[3] = "queued"

\* C13: when a stage has thrown the error of a rejected worker call, and
\* when the run has rejected with it, worker.end() has been called on the
\* stage's worker.
EndedBeforeRejectionSeen ==
  /\ (html.state = "thrown" /\ html.err.op = "worker.render") => html.ends >= 1
  /\ (img.state = "thrown" /\ img.err.op = "worker.process") => img.ends >= 1
  /\ (run.result = "rejected" /\ run.error.op = "worker.render") => html.ends >= 1
  /\ (run.result = "rejected" /\ run.error.op = "worker.process") => img.ends >= 1

\* The run rejected with a chunk's error while another chunk is in flight.
EndedBeforeRejectionSeenWitness ==
  /\ run.result = "rejected"
  /\ run.error = Error("worker.process", 1)
  /\ InFlight(img.calls) # {}
  /\ img.ends = 1

\* The value the content hash must have in this run.
ExpectedHash == IF app.config.cacheBusting THEN run.statsHash ELSE "gridsome"

\* C14: the hash is set once, when the compiler has resolved; from then on
\* it is 'gridsome' without cacheBusting and the compiler's hash with it,
\* and executeQueries and every render chunk receive that value.
HashThreaded ==
  /\ [](Started("executeQueries") =>
          run.hashString = ExpectedHash /\ run.queriesHash = ExpectedHash)
  /\ [](\A i \in DOMAIN html.hashes : html.hashes[i] = ExpectedHash)
  /\ [][Started("executeQueries") =>
          run'.hashString = run.hashString /\ run'.statsHash = run.statsHash]_vars

\* Two chunks were rendered with the literal although the compiler
\* reported a hash of its own.
HashThreadedWitness ==
  /\ ~app.config.cacheBusting
  /\ run.statsHash = "h2"
  /\ Len(html.hashes) >= 2
  /\ \A i \in DOMAIN html.hashes : html.hashes[i] = "gridsome"


\* chunks is the queue cut into ceil(L/size) non-empty pieces of `size`
\* elements, the last one holding the remainder, in the order of the queue.
IsChunking(chunks, queue, size) ==
  /\ Len(chunks) = (Len(queue) + size - 1) \div size
  /\ \A k \in 1..Len(chunks) :
       /\ Len(chunks[k]) > 0
       /\ Len(chunks[k]) =
            IF k < Len(chunks) \/ Len(queue) % size = 0 THEN size
            ELSE Len(queue) % size
       /\ \A j \in 1..Len(chunks[k]) :
            chunks[k][j] = queue[(k - 1) * size + j]

\* C15: the render stage works on the render queue cut into chunks of 350
\* and the image stage on the image queue cut into chunks of 25: ceil(L/S)
\* non-empty chunks, all of size S but possibly the last, which together are
\* the queue in order; an empty queue gives no chunk and no worker call.
ChunkingExact ==
  /\ html.state # "idle" =>
       /\ IsChunking(html.chunks, app.renderQueue, 350)
       /\ Len(html.sent) <= Len(html.chunks)
       /\ Len(app.renderQueue) = 0 => html.chunks = <<>> /\ html.sent = <<>>
  /\ img.state # "idle" =>
       /\ IsChunking(img.chunks, app.images.queue, 25)
       /\ Len(img.sent) <= Len(img.chunks)
       /\ Len(app.images.queue) = 0 => img.chunks = <<>> /\ img.sent = <<>>

\* 52 images were cut into 25, 25 and 2 and sent in three calls.
ChunkingExactWitness ==
  /\ img.state = "returned"
  /\ Len(app.images.queue) = 2 * 25 + 2
  /\ Len(img.chunks) = 3
  /\ Len(img.chunks[3]) = 2
  /\ Len(img.sent) = 3

\* C16: renderHTML issues worker.render for every chunk before it waits:
\* right after the call all chunks are in flight together, and no chunk is
\* ever waiting for another one.
AllRenderCallsAtOnce ==
  /\ [](html.state # "idle" =>
          /\ Len(html.sent) = Len(html.chunks)
          /\ \A i \in DOMAIN html.calls : html.calls[i] # "queued")
  /\ [][(html.state = "idle" /\ html'.state # "idle") =>
          /\ InFlight(html'.calls) = DOMAIN html'.calls
          /\ Len(html'.calls) = Len(html'.chunks)]_vars

\* As many render calls in flight as there are chunks.
AllRenderCallsAtOnceWitness ==
  /\ Len(html.chunks) >= 2
  /\ Cardinality(InFlight(html.calls)) = Len(html.chunks)

\* C17: the first rejected chunk makes its stage reject at once, whatever
\* is still in flight: renderHTML throws in the same step, pMap rejects in
\* the same step and processImages can then throw; the error a stage threw
\* and the error of the run never change afterwards.
RejectsWithoutWaiting ==
  /\ [][(NoneRejected(html.calls) /\ ~NoneRejected(html'.calls)) =>
          html'.state = "thrown"]_vars
  /\ [][html.state = "thrown" =>
          html'.state = "thrown" /\ html'.err = html.err]_vars
  /\ [][(NoneRejected(img.calls) /\ ~NoneRejected(img'.calls)) =>
          pmap'.state = "rejected"]_vars
  /\ []((img.state = "mapping" /\ pmap.state = "rejected") => ENABLED pMap_rejected)
  /\ [][img.state = "thrown" =>
          img'.state = "thrown" /\ img'.err = img.err]_vars
  /\ [][run.result = "rejected" => run'.error = run.error]_vars

\* renderHTML threw the error of chunk 1 and the run rejected with it;
\* chunk 2, still in flight then, rejected afterwards.
RejectsWithoutWaitingWitness ==
  /\ run.result = "rejected"
  /\ run.error = Error("worker.render", 1)
  /\ Len(html.calls) = 2
  /\ html.calls[2] = "rejected"
  /\ html.err = Error("worker.render", 1)

\* A worker that has been created and not ended.
Live(stage) == stage.worker = "created" /\ stage.ends = 0

\* C18: at most one worker is live at any time, the render worker has been
\* ended and has no call in flight when the image worker is created, and
\* render calls go to the render worker only, process calls to the image
\* worker only.
WorkersExclusive ==
  /\ ~(Live(html) /\ Live(img))
  /\ img.worker = "created" => html.ends >= 1 /\ InFlight(html.calls) = {}
  /\ \A k \in 1..Len(html.sent) :
       html.sent[k].on = "html-writer" /\ html.sent[k].op = "render"
  /\ \A k \in 1..Len(img.sent) :
       img.sent[k].on = "image-processor" /\ img.sent[k].op = "process"

\* The image worker is live and busy after the render worker was ended.
WorkersExclusiveWitness ==
  /\ Live(img)
  /\ InFlight(img.calls) # {}
  /\ html.ends = 1
  /\ Len(html.sent) >= 2

\* C20: no call is sent to a worker once worker.end() has been called on
\* it, nor to the image worker once pMap has rejected; on the success path
\* worker.end() is called only when every call of the stage has resolved.
NoCallAfterEnd ==
  /\ [][html.ends >= 1 => html'.sent = html.sent]_vars
  /\ [][img.ends >= 1 => img'.sent = img.sent]_vars
  /\ [][pmap.state = "rejected" => img'.sent = img.sent]_vars
  /\ [][(html.worker = "created" /\ html'.ends > html.ends
           /\ html'.state = "returned") => AllResolved(html.calls)]_vars
  /\ [][(img'.ends > img.ends /\ img'.state # "thrown") =>
          AllResolved(img.calls) /\ Len(img.sent) = Len(img.chunks)]_vars

\* The image worker was ended after a rejection with a chunk never sent
\* and another one still in flight.
NoCallAfterEndWitness ==
  /\ img.ends = 1
  /\ img.state = "thrown"
  /\ Len(img.sent) < Len(img.chunks)
  /\ InFlight(img.calls) # {}


\* The progress counter counts the resolved chunks, and one line has been
\* written per count: 0 first, then after the n-th completion the integer
\* nearest to n * 100 / totalJobs (halves rounded up); the lines never
\* decrease and never exceed 100.
ProgressCounted ==
  LET totalJobs == Len(img.chunks)
  IN /\ img.progress \in 0..totalJobs
     /\ img.progress = Cardinality({i \in DOMAIN img.calls : img.calls[i] = "resolved"})
     /\ pmap.state = "idle" => img.written = <<>>
     /\ pmap.state # "idle" =>
          Len(img.written) = img.progress + 1 /\ img.written[1] = 0
     /\ \A n \in 1..(Len(img.written) - 1) :
          /\ 2 * totalJobs * img.written[n + 1] <= 200 * n + totalJobs
          /\ 200 * n + totalJobs < 2 * totalJobs * (img.written[n + 1] + 1)
          /\ img.written[n] <= img.written[n + 1]
          /\ img.written[n + 1] <= 100

\* The line a run of this many chunks writes after its n-th completion
\* (line 135, with totalJobs = chunks.length).
Line(n) == percent(n, Len(img.chunks))

\* Once the chunks are handed to pMap, every line written so far is the
\* one the run's schedule of lines gives for its completion.
LinesOnSchedule ==
  pmap.state # "idle" =>
    \A n \in 1..(Len(img.written) - 1) : img.written[n + 1] = Line(n)

\* C19 (as claimed): the counter and the lines are as above, and the line
\* of the n-th completion reads 100 exactly when n is the number of chunks.
ProgressHundredOnlyAtEnd ==
  /\ ProgressCounted
  /\ LinesOnSchedule
  /\ pmap.state # "idle" =>
       \A n \in 1..Len(img.chunks) : Line(n) = 100 <=> n = Len(img.chunks)

\* C19 (amended): the counter and the lines are as above; the line of the
\* last completion reads 100, and an earlier line reads 100 only when at
\* most one chunk in 200 is still missing, which takes 200 chunks.
ProgressReported ==
  /\ ProgressCounted
  /\ LinesOnSchedule
  /\ pmap.state # "idle" =>
       \A n \in 1..Len(img.chunks) :
         /\ n = Len(img.chunks) => Line(n) = 100
         /\ Line(n) = 100 => 200 * (Len(img.chunks) - n) <= Len(img.chunks)
         /\ (Line(n) = 100 /\ Len(img.chunks) < 200) => n = Len(img.chunks)

\* A run of several chunks completed them all: its last line reads 100 and
\* the line before it did not.
ProgressReportedWitness ==
  /\ Len(img.chunks) >= 2
  /\ img.progress = Len(img.chunks)
  /\ img.written[Len(img.written)] = 100
  /\ img.written[Len(img.written) - 1] < 100
  /\ img.state = "returned"

====
